---- MODULE Spec2Model ----
(***************************************************************************)
(* Inventory and sales tracker: the product catalogue (InventoryManager),  *)
(* the product objects it owns (Product), the sales ledger (SalesManager)  *)
(* and the sale records (Sale).                                            *)
(*                                                                         *)
(* Product objects live in a heap and are named by references, because a   *)
(* Sale keeps the Product object it was recorded against (sale.product)    *)
(* while the catalogue maps an id to whatever object is stored under it    *)
(* now.  Names are sequences of characters so that str.strip() is a real   *)
(* computation.  Prices and money amounts are Python floats: they are      *)
(* modelled as binary floating point numbers with a Precision-bit          *)
(* significand (CPython: 53), written as multiples of one common quantum,  *)
(* with round-to-nearest-even after every multiplication and addition.     *)
(***************************************************************************)
EXTENDS Integers, Sequences, FiniteSets, TLC

VARIABLES
    products,      \* InventoryManager.products: product id -> reference
    heap,          \* the Product objects, by reference
    sales,         \* SalesManager.sales: the ledger, in insertion order
    next_sale_id,  \* SalesManager.next_sale_id
    last,          \* the most recent call: operation, arguments, outcome
                   \* (for a cancellation also: was the product untouched
                   \* since the sale, is another object under its id now)
    recorded,      \* history: number of record_sale calls that succeeded
    round_trip     \* history, per object: the last sale recorded against it
                   \* and the stock before it, while no successful call has
                   \* acted on the object since (else None)

vars == <<products, heap, sales, next_sale_id, last, recorded, round_trip>>

(* ------------------------------ bounds -------------------------------- *)

\* Largest stock value a caller passes to add_product / update_product.
MaxStock == 2

\* Largest quantity a caller passes to record_sale.
MaxQuantity == 2

\* record_sale is not called with success once next_sale_id exceeds this.
MaxSaleId == 2

\* Number of Product objects constructed in one run.
MaxObjects == 2

\* Significand width of the modelled float (53 in CPython).
Precision == 3

(* ------------------------------ inputs -------------------------------- *)

\* An absent optional argument (Python None) is <<>>, a present one <<v>>.
None == <<>>

Some(v) == <<v>>

ProductIds == {0, 1, 2}

Whitespace == {" "}

\* " " and " a "
Names == { <<" ">>, <<" ", "a", " ">> }

Prices == {0, 3}

Stocks == {-1, MaxStock}

Quantities == 0 .. MaxQuantity

SaleIds == 0 .. MaxSaleId

\* The catalogue runs also rename: " ", " a " and "b".
CatalogueNames == Names \cup { <<"b">> }

\* The pricing runs reprice, and pass valid names, prices and stocks only.
PricingNames == { <<" ", "a", " ">> }

PricingPrices == {3, 5}

PricingStocks == {MaxStock}

\* The inventory runs use names with digits and capitals (" ", "A1" and
\* "2b "), a price whose multiples round and one whose multiples do not,
\* and stocks around the report's threshold of 10.
InventoryNames == { <<" ">>, <<"A", "1">>, <<"2", "b", " ">> }

InventoryPrices == {4, 5}

InventoryStocks == {0, 10, 11}

\* "", "1", " 2 ", "01", "3", "A", "b" and the superscript two.
SearchTerms ==
    { <<>>, <<"1">>, <<" ", "2", " ">>, <<"0", "1">>, <<"3">>, <<"A">>,
      <<"b">>, <<"^2">> }

Thresholds == {-1, 0, 10, 11}

\* Argument values over which the checks of a call are examined in every
\* state: "", " ", "a", " a " and "a b ".
AnyName ==
    { <<>>, <<" ">>, <<"a">>, <<" ", "a", " ">>, <<"a", " ", "b", " ">> }

AnyPrice == {-1, 0, 3, 5}

AnyStock == (-1) .. (MaxStock + 1)

AnyQuantity == (-1) .. (MaxStock + MaxQuantity + 1)

(* --------------------------- float arithmetic -------------------------- *)

RECURSIVE Pow2(_)
Pow2(k) == IF k = 0 THEN 1 ELSE 2 * Pow2(k - 1)

\* The power of two q such that n \div q has exactly Precision bits
\* (1 when n already fits).
RECURSIVE Quantum(_, _)
Quantum(n, q) == IF n \div q < Pow2(Precision) THEN q ELSE Quantum(n, 2 * q)

\* Round-to-nearest, ties-to-even, of the exact non-negative value n.
Round(n) ==
    LET q == Quantum(n, 1)
        m == n \div q
        r == n % q
        up == (2 * r > q) \/ (2 * r = q /\ m % 2 = 1)
    IN  IF up THEN (m + 1) * q ELSE m * q

\* float * int
FMul(x, k) == Round(x * k)

\* float + float
FAdd(x, y) == Round(x + y)

(* ------------------------------ str.strip ------------------------------ *)

RECURSIVE LStrip(_)
LStrip(s) ==
    IF s # <<>> /\ Head(s) \in Whitespace THEN LStrip(Tail(s)) ELSE s

RECURSIVE RStrip(_)
RStrip(s) ==
    IF s # <<>> /\ s[Len(s)] \in Whitespace
    THEN RStrip(SubSeq(s, 1, Len(s) - 1))
    ELSE s

Strip(s) == RStrip(LStrip(s))

\* not name or not name.strip()
IsBlank(name) == name = <<>> \/ Strip(name) = <<>>

(* ------------------------------- Product ------------------------------- *)

\* A reference whose object is no longer referenced by the catalogue or by
\* any sale: CPython has freed it.
Freed == [product_id |-> 0, name |-> <<>>, price |-> 0, stock |-> 0]

\* Product.__init__: the validation, in the order id, name, price, stock.
Product_init_error(product_id, name, price, stock) ==
    IF product_id <= 0 THEN "InvalidProductIdError"
    ELSE IF IsBlank(name) THEN "InvalidProductDataError"
    ELSE IF price <= 0 THEN "InvalidPriceError"
    ELSE IF stock < 0 THEN "InvalidStockError"
    ELSE "none"

\* Product_init that stores the name as given.
Product_init_no_strip(product_id, name, price, stock) ==
    [product_id |-> product_id, name |-> name,
     price |-> price, stock |-> stock]

\* Product.__init__: the object built.
Product_init(product_id, name, price, stock) ==
    [product_id |-> product_id, name |-> Strip(name),
     price |-> price, stock |-> stock]

\* Product.update_stock: the check.
update_stock_error(p, quantity) ==
    IF p.stock + quantity < 0 THEN "InvalidStockError" ELSE "none"

\* update_stock that checks the new stock but does not assign it.
update_stock_checked_only(p, quantity) == p

\* Product.update_stock: the mutation.
update_stock(p, quantity) == [p EXCEPT !.stock = p.stock + quantity]

(* --------------------------------- Sale -------------------------------- *)

\* Sale_init with the total taken as the unit price.
Sale_init_unit_price(sale_id, ref, p, quantity) ==
    [sale_id |-> sale_id, product |-> ref, quantity |-> quantity,
     total_value |-> p.price]

\* Sale.__init__ (the creation date is not modelled).
Sale_init(sale_id, ref, p, quantity) ==
    [sale_id |-> sale_id, product |-> ref, quantity |-> quantity,
     total_value |-> FMul(p.price, quantity)]

(* ------------------------------ the heap ------------------------------- *)

Refs(sls) == { sls[i].product : i \in DOMAIN sls }

\* Objects reachable from neither the catalogue nor a sale are freed.
Collect(h, prods, sls) ==
    [r \in DOMAIN h |->
        IF r \in { prods[i] : i \in DOMAIN prods } \cup Refs(sls)
        THEN h[r] ELSE Freed]

(* ---------------------------- InventoryManager ------------------------- *)

\* add_product_error with the name checked before the uniqueness of the id.
add_product_error_name_first(product_id, name, price, stock) ==
    IF product_id <= 0 THEN "InvalidProductIdError"
    ELSE IF IsBlank(name) THEN "InvalidProductDataError"
    ELSE IF product_id \in DOMAIN products THEN "ProductAlreadyExistsError"
    ELSE IF price <= 0 THEN "InvalidPriceError"
    ELSE IF stock < 0 THEN "InvalidStockError"
    ELSE Product_init_error(product_id, name, price, stock)

\* InventoryManager.add_product: the checks before the insertion.
add_product_error(product_id, name, price, stock) ==
    IF product_id <= 0 THEN "InvalidProductIdError"
    ELSE IF product_id \in DOMAIN products THEN "ProductAlreadyExistsError"
    ELSE IF IsBlank(name) THEN "InvalidProductDataError"
    ELSE IF price <= 0 THEN "InvalidPriceError"
    ELSE IF stock < 0 THEN "InvalidStockError"
    ELSE Product_init_error(product_id, name, price, stock)

\* update_product_error without the stock check.
update_product_error_no_stock_check(product_id, name, price, stock) ==
    IF product_id \notin DOMAIN products THEN "ProductNotFoundError"
    ELSE IF name # None /\ IsBlank(name[1]) THEN "InvalidProductDataError"
    ELSE IF price # None /\ price[1] <= 0 THEN "InvalidPriceError"
    ELSE "none"

\* InventoryManager.update_product: the checks before the assignments.
update_product_error(product_id, name, price, stock) ==
    IF product_id \notin DOMAIN products THEN "ProductNotFoundError"
    ELSE IF name # None /\ IsBlank(name[1]) THEN "InvalidProductDataError"
    ELSE IF price # None /\ price[1] <= 0 THEN "InvalidPriceError"
    ELSE IF stock # None /\ stock[1] < 0 THEN "InvalidStockError"
    ELSE "none"

\* update_product_apply that stores the name as given.
update_product_apply_no_strip(p, name, price, stock) ==
    [p EXCEPT !.name  = IF name # None THEN name[1] ELSE @,
              !.price = IF price # None THEN price[1] ELSE @,
              !.stock = IF stock # None THEN stock[1] ELSE @]

\* InventoryManager.update_product: the assignments to the product.
update_product_apply(p, name, price, stock) ==
    [p EXCEPT !.name  = IF name # None THEN Strip(name[1]) ELSE @,
              !.price = IF price # None THEN price[1] ELSE @,
              !.stock = IF stock # None THEN stock[1] ELSE @]

\* InventoryManager.get_product / remove_product: the existence check.
get_product_error(product_id) ==
    IF product_id \notin DOMAIN products THEN "ProductNotFoundError"
    ELSE "none"

\* InventoryManager.get_product: the object returned.
get_product(product_id) == heap[products[product_id]]

(* ------------------------- InventoryManager: queries ------------------- *)

\* self.products.values(): the objects in insertion order.  A product is
\* inserted when it is constructed and references are given out in
\* increasing order, so insertion order is reference order.
RECURSIVE SortedRefs(_)
SortedRefs(S) ==
    IF S = {} THEN <<>>
    ELSE LET r == CHOOSE x \in S : \A y \in S : x <= y
         IN  <<r>> \o SortedRefs(S \ {r})

values == SortedRefs({ products[id] : id \in DOMAIN products })

\* The characters int() reads as decimal digits, by value + 1.
Decimal == <<"0", "1", "2", "3", "4", "5", "6", "7", "8", "9">>

DecimalDigits == { Decimal[k] : k \in DOMAIN Decimal }

\* Characters for which str.isdigit() is true and that int() rejects: the
\* superscript two, written "^2" here.
OtherDigits == {"^2"}

\* str.isdigit
isdigit(s) ==
    /\ s # <<>>
    /\ \A k \in DOMAIN s : s[k] \in DecimalDigits \cup OtherDigits

DigitValue(c) == (CHOOSE k \in DOMAIN Decimal : Decimal[k] = c) - 1

RECURSIVE int(_)
\* int(s) for a string of decimal digits.
int(s) ==
    IF s = <<>> THEN 0
    ELSE 10 * int(SubSeq(s, 1, Len(s) - 1)) + DigitValue(s[Len(s)])

\* int(s) for a string that passed isdigit: the error raised.
int_error(s) ==
    IF \E k \in DOMAIN s : s[k] \notin DecimalDigits THEN "ValueError"
    ELSE "none"

\* str.lower, on the letters of the model.
lower_char(c) == IF c = "A" THEN "a" ELSE IF c = "B" THEN "b" ELSE c

lower(s) == [k \in DOMAIN s |-> lower_char(s[k])]

\* sub in s
Contains(sub, s) ==
    \E i \in 0 .. (Len(s) - Len(sub)) : SubSeq(s, i + 1, i + Len(sub)) = sub

\* InventoryManager.search_products: the search term as it is used.
search_term_of(term) == Strip(lower(term))

\* InventoryManager.search_products: the error raised.
search_products_error(term) ==
    IF isdigit(search_term_of(term)) THEN int_error(search_term_of(term))
    ELSE "none"

\* search_products without the lookup by id.
search_products_by_name_only(term) ==
    SelectSeq(values,
              LAMBDA r : Contains(search_term_of(term), lower(heap[r].name)))

\* InventoryManager.search_products: the list returned, as references.
search_products(term) ==
    LET t == search_term_of(term)
    IN  IF isdigit(t) /\ int(t) \in DOMAIN products
        THEN <<products[int(t)]>>
        ELSE SelectSeq(values, LAMBDA r : Contains(t, lower(heap[r].name)))

\* filter_by_stock_level with the threshold excluded from the low side.
filter_by_stock_level_strict(threshold, low_stock) ==
    IF low_stock
    THEN SelectSeq(values, LAMBDA r : heap[r].stock < threshold)
    ELSE SelectSeq(values, LAMBDA r : heap[r].stock > threshold)

\* InventoryManager.filter_by_stock_level: the list returned, as references.
filter_by_stock_level(threshold, low_stock) ==
    IF low_stock
    THEN SelectSeq(values, LAMBDA r : heap[r].stock <= threshold)
    ELSE SelectSeq(values, LAMBDA r : heap[r].stock > threshold)

\* InventoryManager.filter_by_price_range: the list returned, as references.
filter_by_price_range(min_price, max_price) ==
    SelectSeq(values,
              LAMBDA r : /\ (min_price = None \/ heap[r].price >= min_price[1])
                         /\ (max_price = None \/ heap[r].price <= max_price[1]))

RECURSIVE ValueFrom(_, _)
\* sum(...): the left-to-right float sum of price * stock, starting from acc.
ValueFrom(acc, refs) ==
    IF refs = <<>> THEN acc
    ELSE ValueFrom(FAdd(acc, FMul(heap[Head(refs)].price,
                                  heap[Head(refs)].stock)),
                   Tail(refs))

RECURSIVE PriceFrom(_, _)
PriceFrom(acc, refs) ==
    IF refs = <<>> THEN acc
    ELSE PriceFrom(FAdd(acc, heap[Head(refs)].price), Tail(refs))

\* get_total_inventory_value that adds up the prices.
get_total_inventory_value_of_prices == PriceFrom(0, values)

\* InventoryManager.get_total_inventory_value
get_total_inventory_value == ValueFrom(0, values)

(* -------------------------------- Report ------------------------------- *)

\* Report.LOW_STOCK_THRESHOLD
LOW_STOCK_THRESHOLD == 10

\* sorted(inventory_manager.products.values(), key=lambda p: p.product_id)
RECURSIVE sorted_by_product_id(_)
sorted_by_product_id(ids) ==
    IF ids = {} THEN <<>>
    ELSE LET id == CHOOSE x \in ids : \A y \in ids : x <= y
         IN  <<products[id]>> \o sorted_by_product_id(ids \ {id})

RECURSIVE total_items(_)
\* sum(p.stock for p in products)
total_items(refs) ==
    IF refs = <<>> THEN 0 ELSE heap[Head(refs)].stock + total_items(Tail(refs))

\* The low stock items of a report that tests the threshold first.
low_stock_items_threshold_first(sorted) ==
    SelectSeq(sorted, LAMBDA r : heap[r].stock <= LOW_STOCK_THRESHOLD)

\* Report.inventory_report: the products given the status LOW STOCK.
low_stock_items(sorted) ==
    SelectSeq(sorted, LAMBDA r : /\ ~(heap[r].stock = 0)
                                 /\ heap[r].stock <= LOW_STOCK_THRESHOLD)

\* Report.inventory_report: the products given the status OUT OF STOCK.
out_of_stock_items(sorted) == SelectSeq(sorted, LAMBDA r : heap[r].stock = 0)

\* Report.inventory_report: the summary printed, None for an empty
\* inventory (the report then prints no summary).
inventory_report ==
    IF DOMAIN products = {} THEN None
    ELSE LET sorted == sorted_by_product_id(DOMAIN products)
         IN  Some([total_products |-> Len(sorted),
                   total_items |-> total_items(sorted),
                   total_value |-> get_total_inventory_value,
                   low_stock |-> Len(low_stock_items(sorted)),
                   out_of_stock |-> Len(out_of_stock_items(sorted))])

(* ------------------------------ SalesManager --------------------------- *)

\* SalesManager.get_sale: position of the first sale with this id, 0 if none.
get_sale_index(sls, sale_id) ==
    IF \E i \in DOMAIN sls : sls[i].sale_id = sale_id
    THEN CHOOSE i \in DOMAIN sls :
            /\ sls[i].sale_id = sale_id
            /\ \A j \in 1 .. (i - 1) : sls[j].sale_id # sale_id
    ELSE 0

get_sale_error(sls, sale_id) ==
    IF get_sale_index(sls, sale_id) = 0 THEN "SaleNotFoundError" ELSE "none"

\* list.pop() in place of list.remove: the last element goes.
RemoveAt_pop(sls, i) == SubSeq(sls, 1, Len(sls) - 1)

\* list.remove of the element at position i.
RemoveAt(sls, i) == SubSeq(sls, 1, i - 1) \o SubSeq(sls, i + 1, Len(sls))

\* SalesManager.cancel_sale: the error raised (the ledger changes whenever
\* the sale is found).
cancel_sale_error(sale_id) ==
    LET i == get_sale_index(sales, sale_id)
        pid == heap[sales[i].product].product_id
    IN  IF i = 0 THEN "SaleNotFoundError"
        ELSE IF get_product_error(pid) # "none" THEN get_product_error(pid)
        ELSE update_stock_error(get_product(pid), sales[i].quantity)

\* A sale id taken from the length of the ledger.
new_sale_id_from_length == Len(sales) + 1

\* A sale id that is the smallest one the ledger does not hold.
new_sale_id_lowest_free ==
    CHOOSE n \in 1 .. (Len(sales) + 1) :
        /\ \A i \in DOMAIN sales : sales[i].sale_id # n
        /\ \A m \in 1 .. (n - 1) : \E i \in DOMAIN sales : sales[i].sale_id = m

\* SalesManager.record_sale: the id given to the new sale.
new_sale_id == next_sale_id

\* cancel_sale that leaves the stock as it is.
restore_stock_skipped(p, sale) == p

\* SalesManager.cancel_sale: the stock given back to the product.
restore_stock(p, sale) == update_stock(p, sale.quantity)

\* record_sale_error with the product looked up before the quantity check.
record_sale_error_lookup_first(product_id, quantity) ==
    IF get_product_error(product_id) # "none"
    THEN get_product_error(product_id)
    ELSE IF quantity <= 0 THEN "InvalidQuantityError"
    ELSE IF get_product(product_id).stock < quantity THEN "OutOfStockError"
    ELSE "none"

\* record_sale_error with the stock comparison off by one.
record_sale_error_off_by_one(product_id, quantity) ==
    IF quantity <= 0 THEN "InvalidQuantityError"
    ELSE IF get_product_error(product_id) # "none"
         THEN get_product_error(product_id)
    ELSE IF get_product(product_id).stock + 1 < quantity
         THEN "OutOfStockError"
    ELSE "none"

\* SalesManager.record_sale: the checks before the sale is made.
record_sale_error(product_id, quantity) ==
    IF quantity <= 0 THEN "InvalidQuantityError"
    ELSE IF get_product_error(product_id) # "none"
         THEN get_product_error(product_id)
    ELSE IF get_product(product_id).stock < quantity THEN "OutOfStockError"
    ELSE "none"

RECURSIVE SumFrom(_, _)
\* sum(...): the left-to-right float sum of total_value, starting from acc.
SumFrom(acc, sls) ==
    IF sls = <<>> THEN acc
    ELSE SumFrom(FAdd(acc, Head(sls).total_value), Tail(sls))

RECURSIVE SumQuantities(_)
SumQuantities(sls) ==
    IF sls = <<>> THEN 0 ELSE Head(sls).quantity + SumQuantities(Tail(sls))

\* get_total_revenue that adds up the quantities.
get_total_revenue_of_quantities == SumQuantities(sales)

RECURSIVE CurrentPriceSumFrom(_, _)
CurrentPriceSumFrom(acc, sls) ==
    IF sls = <<>> THEN acc
    ELSE CurrentPriceSumFrom(
            FAdd(acc, FMul(heap[Head(sls).product].price,
                           Head(sls).quantity)),
            Tail(sls))

\* get_total_revenue that prices every sale at its product's price now.
get_total_revenue_at_current_price == CurrentPriceSumFrom(0, sales)

\* SalesManager.get_total_revenue
get_total_revenue == SumFrom(0, sales)

\* SalesManager.get_sales_count
get_sales_count == Len(sales)

(* ----------------------------- Report: sales --------------------------- *)

\* Report.sales_report: the keys of product_sales (the names the ledger's
\* sales show through sale.product), in the order of their first sale.
RECURSIVE report_keys(_, _)
report_keys(keys, sls) ==
    IF sls = <<>> THEN keys
    ELSE LET prod_name == heap[Head(sls).product].name
         IN  report_keys(IF \E k \in DOMAIN keys : keys[k] = prod_name
                         THEN keys ELSE Append(keys, prod_name),
                         Tail(sls))

\* Report.sales_report: product_sales[prod_name] after the loop.
RECURSIVE product_sales(_, _, _)
product_sales(acc, prod_name, sls) ==
    IF sls = <<>> THEN acc
    ELSE product_sales(IF heap[Head(sls).product].name = prod_name
                       THEN acc + Head(sls).quantity ELSE acc,
                       prod_name, Tail(sls))

\* Report.sales_report: product_revenue[prod_name] after the loop.
RECURSIVE product_revenue(_, _, _)
product_revenue(acc, prod_name, sls) ==
    IF sls = <<>> THEN acc
    ELSE product_revenue(IF heap[Head(sls).product].name = prod_name
                         THEN FAdd(acc, Head(sls).total_value) ELSE acc,
                         prod_name, Tail(sls))

\* max(d, key=d.get): the first key, in the order of the keys, whose value
\* no other key exceeds; d[keys[k]] is values_of[k].
first_max(keys, values_of) ==
    keys[CHOOSE k \in DOMAIN keys :
            /\ \A j \in DOMAIN keys : values_of[j] <= values_of[k]
            /\ \A j \in 1 .. (k - 1) : values_of[j] < values_of[k]]

\* Report.sales_report: what is printed, None for an empty ledger (the
\* report then prints no figures).  The average sale value, printed only,
\* is left out.
sales_report ==
    IF sales = <<>> THEN None
    ELSE LET keys == report_keys(<<>>, sales)
             qty == [k \in DOMAIN keys |-> product_sales(0, keys[k], sales)]
             rev == [k \in DOMAIN keys |->
                        product_revenue(0, keys[k], sales)]
         IN  Some([total_revenue |-> get_total_revenue,
                   total_sales_count |-> get_sales_count,
                   keys |-> keys,
                   product_sales |-> qty,
                   product_revenue |-> rev,
                   most_sold |-> first_max(keys, qty),
                   highest_revenue |-> first_max(keys, rev)])

(* ------------------------------ history -------------------------------- *)

\* The outcome of a call; the arguments are kept for a call that succeeded
\* or changed the state.
Outcome(op, err) == [op |-> op, err |-> err]

Put(f, k, v) == [x \in DOMAIN f \cup {k} |-> IF x = k THEN v ELSE f[x]]

Drop(f, k) == [x \in DOMAIN f \ {k} |-> f[x]]

(* ------------------------------- state --------------------------------- *)

Init ==
    /\ products = <<>>
    /\ heap = <<>>
    /\ sales = <<>>
    /\ next_sale_id = 1
    /\ last = Outcome("init", "none")
    /\ recorded = 0
    /\ round_trip = <<>>

(* ------------------------------ operations ----------------------------- *)

add_product(product_id, name, price, stock) ==
    LET err == add_product_error(product_id, name, price, stock)
        ref == Len(heap) + 1
    IN  /\ err = "none" => Len(heap) < MaxObjects
        /\ IF err = "none"
           THEN /\ heap' = Append(heap,
                                  Product_init(product_id, name, price, stock))
                /\ products' = Put(products, product_id, ref)
                /\ round_trip' = Append(round_trip, None)
                /\ last' = [op |-> "add_product", err |-> "none",
                            product_id |-> product_id, name |-> name,
                            price |-> price, stock |-> stock]
           ELSE /\ last' = Outcome("add_product", err)
                /\ UNCHANGED <<products, heap, round_trip>>
        /\ UNCHANGED <<sales, next_sale_id, recorded>>

\* update_product that checks and assigns one field after the other.
update_product_field_by_field(product_id, name, price, stock) ==
    LET err == update_product_error(product_id, name, price, stock)
        ref == products[product_id]
        p1 == IF name # None /\ err # "InvalidProductDataError"
              THEN [heap[ref] EXCEPT !.name = Strip(name[1])]
              ELSE heap[ref]
        p2 == IF price # None
                 /\ err \notin {"InvalidProductDataError", "InvalidPriceError"}
              THEN [p1 EXCEPT !.price = price[1]]
              ELSE p1
        p3 == IF stock # None /\ err = "none"
              THEN [p2 EXCEPT !.stock = stock[1]]
              ELSE p2
    IN  /\ IF err = "ProductNotFoundError"
           THEN UNCHANGED <<heap, round_trip>>
           ELSE /\ heap' = [heap EXCEPT ![ref] = p3]
                /\ round_trip' = [round_trip EXCEPT ![ref] = None]
        /\ last' = IF err = "none"
                   THEN [op |-> "update_product", err |-> "none",
                         product_id |-> product_id]
                   ELSE Outcome("update_product", err)
        /\ UNCHANGED <<products, sales, next_sale_id, recorded>>

\* update_product that builds a new object and stores it under the id.
update_product_replaces_object(product_id, name, price, stock) ==
    LET err == update_product_error(product_id, name, price, stock)
        ref == products[product_id]
        new == Len(heap) + 1
    IN  /\ err = "none" => Len(heap) < MaxObjects
        /\ IF err = "none"
           THEN /\ products' = Put(products, product_id, new)
                /\ heap' = Collect(
                       Append(heap, update_product_apply(heap[ref], name,
                                                         price, stock)),
                       products', sales)
                /\ round_trip' = Append(round_trip, None)
                /\ last' = [op |-> "update_product", err |-> "none",
                            product_id |-> product_id]
           ELSE /\ last' = Outcome("update_product", err)
                /\ UNCHANGED <<products, heap, round_trip>>
        /\ UNCHANGED <<sales, next_sale_id, recorded>>

update_product(product_id, name, price, stock) ==
    LET err == update_product_error(product_id, name, price, stock)
        ref == products[product_id]
    IN  /\ IF err = "none"
           THEN /\ heap' = [heap EXCEPT ![ref] =
                                update_product_apply(@, name, price, stock)]
                /\ round_trip' = [round_trip EXCEPT ![ref] = None]
                /\ last' = [op |-> "update_product", err |-> "none",
                            product_id |-> product_id]
           ELSE /\ last' = Outcome("update_product", err)
                /\ UNCHANGED <<heap, round_trip>>
        /\ UNCHANGED <<products, sales, next_sale_id, recorded>>

\* remove_product that also deletes the sales of the product.
remove_product_cascade(product_id) ==
    LET err == get_product_error(product_id)
        kept(sale) == sale.product # products[product_id]
    IN  /\ IF err = "none"
           THEN /\ products' = Drop(products, product_id)
                /\ sales' = SelectSeq(sales, kept)
                /\ heap' = Collect(heap, products', sales')
                /\ round_trip' =
                     [round_trip EXCEPT ![products[product_id]] = None]
                /\ last' = [op |-> "remove_product", err |-> "none",
                            product_id |-> product_id]
           ELSE /\ last' = Outcome("remove_product", err)
                /\ UNCHANGED <<products, heap, round_trip, sales>>
        /\ UNCHANGED <<next_sale_id, recorded>>

remove_product(product_id) ==
    LET err == get_product_error(product_id)
    IN  /\ IF err = "none"
           THEN /\ products' = Drop(products, product_id)
                /\ heap' = Collect(heap, products', sales)
                /\ round_trip' =
                     [round_trip EXCEPT ![products[product_id]] = None]
                /\ last' = [op |-> "remove_product", err |-> "none",
                            product_id |-> product_id]
           ELSE /\ last' = Outcome("remove_product", err)
                /\ UNCHANGED <<products, heap, round_trip>>
        /\ UNCHANGED <<sales, next_sale_id, recorded>>

get_product_call(product_id) ==
    LET err == get_product_error(product_id)
    IN  /\ last' = IF err = "none"
                   THEN [op |-> "get_product", err |-> "none",
                         product_id |-> product_id]
                   ELSE Outcome("get_product", err)
        /\ UNCHANGED <<products, heap, sales, next_sale_id, recorded,
                       round_trip>>

\* record_sale that takes the sale id before it looks up the product.
record_sale_id_taken_first(product_id, quantity) ==
    LET err == record_sale_error(product_id, quantity)
        ref == products[product_id]
        sale_id == new_sale_id
        product == update_stock(heap[ref], -quantity)
    IN  /\ err \in {"none", "ProductNotFoundError", "OutOfStockError"}
                => next_sale_id <= MaxSaleId
        /\ IF err = "InvalidQuantityError"
           THEN /\ last' = Outcome("record_sale", err)
                /\ UNCHANGED <<heap, sales, next_sale_id, recorded,
                               round_trip>>
           ELSE IF err # "none"
           THEN /\ next_sale_id' = next_sale_id + 1
                /\ last' = Outcome("record_sale", err)
                /\ UNCHANGED <<heap, sales, recorded, round_trip>>
           ELSE /\ next_sale_id' = next_sale_id + 1
                /\ heap' = [heap EXCEPT ![ref] = product]
                /\ sales' = Append(sales,
                        Sale_init(sale_id, ref, product, quantity))
                /\ recorded' = recorded + 1
                /\ round_trip' = [round_trip EXCEPT ![ref] =
                        Some([sale_id |-> sale_id,
                              pre_stock |-> heap[ref].stock])]
                /\ last' = [op |-> "record_sale", err |-> "none",
                            product_id |-> product_id,
                            quantity |-> quantity]
        /\ UNCHANGED products

record_sale(product_id, quantity) ==
    LET err == record_sale_error(product_id, quantity)
        ref == products[product_id]
        sale_id == new_sale_id
        stock_err == update_stock_error(heap[ref], -quantity)
        product == update_stock(heap[ref], -quantity)
    IN  /\ err = "none" => next_sale_id <= MaxSaleId
        /\ IF err # "none"
           THEN /\ last' = Outcome("record_sale", err)
                /\ UNCHANGED <<heap, sales, next_sale_id, recorded,
                               round_trip>>
           ELSE /\ next_sale_id' = next_sale_id + 1
                /\ IF stock_err # "none"
                   THEN /\ last' = [op |-> "record_sale", err |-> stock_err,
                                    product_id |-> product_id,
                                    quantity |-> quantity]
                        /\ UNCHANGED <<heap, sales, recorded, round_trip>>
                   ELSE /\ heap' = [heap EXCEPT ![ref] = product]
                        /\ sales' = Append(sales,
                                Sale_init(sale_id, ref, product, quantity))
                        /\ recorded' = recorded + 1
                        /\ round_trip' = [round_trip EXCEPT ![ref] =
                                Some([sale_id |-> sale_id,
                                      pre_stock |-> heap[ref].stock])]
                        /\ last' = [op |-> "record_sale", err |-> "none",
                                    product_id |-> product_id,
                                    quantity |-> quantity]
        /\ UNCHANGED products

get_sale_call(sale_id) ==
    LET err == get_sale_error(sales, sale_id)
    IN  /\ last' = IF err = "none"
                   THEN [op |-> "get_sale", err |-> "none",
                         sale_id |-> sale_id]
                   ELSE Outcome("get_sale", err)
        /\ UNCHANGED <<products, heap, sales, next_sale_id, recorded,
                       round_trip>>

\* cancel_sale that gives the stock back to the object the sale holds.
cancel_sale_restocks_sold_object(sale_id) ==
    LET i == get_sale_index(sales, sale_id)
        sale == sales[i]
        cur == sale.product
    IN  /\ IF i # 0
           THEN /\ sales' = RemoveAt(sales, i)
                /\ heap' = Collect(
                       [heap EXCEPT ![cur] = restore_stock(@, sale)],
                       products, sales')
                /\ round_trip' = [round_trip EXCEPT ![cur] = None]
                /\ last' = [op |-> "cancel_sale", err |-> "none",
                            sale_id |-> sale_id,
                            untouched |->
                                /\ round_trip[sale.product] # None
                                /\ round_trip[sale.product][1].sale_id
                                        = sale_id,
                            replaced |->
                                \/ heap[cur].product_id \notin DOMAIN products
                                \/ products[heap[cur].product_id] # cur]
           ELSE /\ last' = Outcome("cancel_sale", "SaleNotFoundError")
                /\ UNCHANGED <<heap, sales, round_trip>>
        /\ UNCHANGED <<products, next_sale_id, recorded>>

cancel_sale(sale_id) ==
    LET err == cancel_sale_error(sale_id)
        i == get_sale_index(sales, sale_id)
        sale == sales[i]
        cur == products[heap[sale.product].product_id]
    IN  /\ IF err = "none"
           THEN /\ sales' = RemoveAt(sales, i)
                /\ heap' = Collect(
                       [heap EXCEPT ![cur] = restore_stock(@, sale)],
                       products, sales')
                /\ round_trip' = [round_trip EXCEPT ![cur] = None]
                /\ last' = [op |-> "cancel_sale", err |-> "none",
                            sale_id |-> sale_id,
                            untouched |->
                                /\ round_trip[sale.product] # None
                                /\ round_trip[sale.product][1].sale_id
                                        = sale_id,
                            replaced |-> sale.product # cur]
           ELSE IF err = "ProductNotFoundError"
           THEN /\ sales' = RemoveAt(sales, i)
                /\ heap' = Collect(heap, products, sales')
                /\ last' = [op |-> "cancel_sale", err |-> err,
                            sale_id |-> sale_id]
                /\ UNCHANGED round_trip
           ELSE /\ last' = Outcome("cancel_sale", err)
                /\ UNCHANGED <<heap, sales, round_trip>>
        /\ UNCHANGED <<products, next_sale_id, recorded>>

search_products_call(term) ==
    LET err == search_products_error(term)
    IN  /\ last' = IF err = "none"
                   THEN [op |-> "search_products", err |-> "none",
                         term |-> term]
                   ELSE Outcome("search_products", err)
        /\ UNCHANGED <<products, heap, sales, next_sale_id, recorded,
                       round_trip>>

filter_by_stock_level_call(threshold, low_stock) ==
    /\ last' = [op |-> "filter_by_stock_level", err |-> "none",
                threshold |-> threshold, low_stock |-> low_stock]
    /\ UNCHANGED <<products, heap, sales, next_sale_id, recorded, round_trip>>

get_total_inventory_value_call ==
    /\ last' = Outcome("get_total_inventory_value", "none")
    /\ UNCHANGED <<products, heap, sales, next_sale_id, recorded, round_trip>>

inventory_report_call ==
    /\ last' = Outcome("inventory_report", "none")
    /\ UNCHANGED <<products, heap, sales, next_sale_id, recorded, round_trip>>

Optional(S) == {None} \cup { Some(v) : v \in S }

\* One call of one operation, its arguments drawn from the given sets.
Call(names, prices, stocks) ==
    \/ \E id \in ProductIds, name \in names, price \in prices,
          stock \in stocks : add_product(id, name, price, stock)
    \/ \E id \in ProductIds, name \in Optional(names),
          price \in Optional(prices), stock \in Optional(stocks) :
            update_product(id, name, price, stock)
    \/ \E id \in ProductIds : remove_product(id)
    \/ \E id \in ProductIds : get_product_call(id)
    \/ \E id \in ProductIds, quantity \in Quantities :
            record_sale(id, quantity)
    \/ \E sale_id \in SaleIds : get_sale_call(sale_id)
    \/ \E sale_id \in SaleIds : cancel_sale(sale_id)

Next == Call(Names, Prices, Stocks)

Spec == Init /\ [][Next]_vars

NextCatalogue == Call(CatalogueNames, Prices, Stocks)

SpecCatalogue == Init /\ [][NextCatalogue]_vars

NextPricing == Call(PricingNames, PricingPrices, PricingStocks)

SpecPricing == Init /\ [][NextPricing]_vars

\* The InventoryManager on its own, with its queries and the inventory
\* report.
NextInventory ==
    \/ \E id \in ProductIds, name \in InventoryNames,
          price \in InventoryPrices, stock \in InventoryStocks :
            add_product(id, name, price, stock)
    \/ \E id \in ProductIds, name \in Optional(InventoryNames),
          price \in Optional(InventoryPrices),
          stock \in Optional(InventoryStocks) :
            update_product(id, name, price, stock)
    \/ \E id \in ProductIds : remove_product(id)
    \/ \E id \in ProductIds : get_product_call(id)
    \/ \E term \in SearchTerms : search_products_call(term)
    \/ \E threshold \in Thresholds, low_stock \in BOOLEAN :
            filter_by_stock_level_call(threshold, low_stock)
    \/ get_total_inventory_value_call
    \/ inventory_report_call

SpecInventory == Init /\ [][NextInventory]_vars

(* ------------------------- main: the menu loop ------------------------- *)

\* The loop of main is running: no exception has left it and sys.exit has
\* not been called.  An exception that leaves main, SystemExit included, is
\* recorded as the outcome of "main".
Running == last.op # "main"

\* An exception no handler catches leaves main.
Propagate(err) ==
    /\ last' = Outcome("main", err)
    /\ UNCHANGED <<products, heap, sales, next_sale_id, recorded, round_trip>>

\* The handler goes on without a call to a manager.
Handled(op, err) ==
    /\ last' = Outcome(op, err)
    /\ UNCHANGED <<products, heap, sales, next_sale_id, recorded, round_trip>>

\* handle_add_product: the except clause.
AddProductCaught ==
    {"ProductAlreadyExistsError", "InvalidProductDataError",
     "InvalidPriceError", "InvalidStockError", "InvalidProductIdError"}

\* handle_update_product: the except clauses.
UpdateProductCaught ==
    {"ProductNotFoundError", "InvalidProductDataError", "InvalidPriceError",
     "InvalidStockError", "ValueError"}

\* handle_remove_product: the except clause.
RemoveProductCaught == {"ProductNotFoundError"}

\* handle_record_sale: the except clauses.
RecordSaleCaught ==
    {"OutOfStockError", "ProductNotFoundError", "InvalidQuantityError"}

\* handle_cancel_sale: the except clause.
CancelSaleCaught == {"SaleNotFoundError", "ProductNotFoundError"}

\* Menu choice 1.
handle_add_product(product_id, name, price, stock) ==
    LET err == add_product_error(product_id, name, price, stock)
    IN  /\ Running
        /\ IF err \in {"none"} \cup AddProductCaught
           THEN add_product(product_id, name, price, stock)
           ELSE Propagate(err)

\* Menu choice 2; an empty name is passed as None, and a price or stock
\* that float() or int() cannot read raises ValueError before the call.
handle_update_product(product_id, name, price, stock, readable) ==
    LET given == IF name = Some(<<>>) THEN None ELSE name
        err == IF readable
               THEN update_product_error(product_id, given, price, stock)
               ELSE "ValueError"
    IN  /\ Running
        /\ IF err \notin {"none"} \cup UpdateProductCaught
           THEN Propagate(err)
           ELSE IF readable
           THEN update_product(product_id, given, price, stock)
           ELSE Handled("update_product", err)

\* Menu choice 3: get_product, the confirmation, remove_product.
handle_remove_product(product_id, confirmed) ==
    LET err == get_product_error(product_id)
    IN  /\ Running
        /\ IF err \notin {"none"} \cup RemoveProductCaught
           THEN Propagate(err)
           ELSE IF err = "none" /\ confirmed
           THEN remove_product(product_id)
           ELSE get_product_call(product_id)

\* Menu choice 4.
list_products == Running /\ Handled("list_products", "none")

\* Menu choice 5.
handle_record_sale(product_id, quantity) ==
    LET err == record_sale_error(product_id, quantity)
        stock_err == IF err = "none"
                     THEN update_stock_error(get_product(product_id),
                                             -quantity)
                     ELSE "none"
    IN  /\ Running
        /\ IF err \notin {"none"} \cup RecordSaleCaught
           THEN Propagate(err)
           ELSE IF stock_err \notin {"none"} \cup RecordSaleCaught
           THEN /\ next_sale_id < MaxSaleId + 1
                /\ next_sale_id' = next_sale_id + 1
                /\ last' = Outcome("main", stock_err)
                /\ UNCHANGED <<products, heap, sales, recorded, round_trip>>
           ELSE record_sale(product_id, quantity)

\* Menu choice 6.
list_sales == Running /\ Handled("list_sales", "none")

\* Menu choice 7.
handle_inventory_report == Running /\ inventory_report_call

sales_report_call ==
    /\ last' = Outcome("sales_report", "none")
    /\ UNCHANGED <<products, heap, sales, next_sale_id, recorded, round_trip>>

\* Menu choice 8.
handle_sales_report == Running /\ sales_report_call

\* Menu choice 9, sub-choice 1: the call is in no try block.
handle_search(term) ==
    LET err == search_products_error(Strip(term))
    IN  /\ Running
        /\ IF err = "none" THEN search_products_call(Strip(term))
           ELSE Propagate(err)

filter_by_price_range_call(min_price, max_price) ==
    /\ last' = [op |-> "filter_by_price_range", err |-> "none",
                min_price |-> min_price, max_price |-> max_price]
    /\ UNCHANGED <<products, heap, sales, next_sale_id, recorded, round_trip>>

\* Menu choice 9, sub-choice 2; a price float() cannot read raises
\* ValueError, which is caught.
handle_filter_by_price_range(min_price, max_price, readable) ==
    /\ Running
    /\ IF readable THEN filter_by_price_range_call(min_price, max_price)
       ELSE Handled("filter_by_price_range", "ValueError")

\* Menu choice 9, sub-choice 3; a threshold int() cannot read raises
\* ValueError, which is caught.
handle_filter_by_stock_level(threshold, low_stock, readable) ==
    /\ Running
    /\ IF readable THEN filter_by_stock_level_call(threshold, low_stock)
       ELSE Handled("filter_by_stock_level", "ValueError")

\* Menu choice 10: get_sale, the confirmation, cancel_sale.
handle_cancel_sale(sale_id, confirmed) ==
    LET found == get_sale_error(sales, sale_id)
        err == IF found = "none" /\ confirmed
               THEN cancel_sale_error(sale_id) ELSE found
    IN  /\ Running
        /\ IF err \notin {"none"} \cup CancelSaleCaught
           THEN Propagate(err)
           ELSE IF found = "none" /\ confirmed
           THEN cancel_sale(sale_id)
           ELSE get_sale_call(sale_id)

\* Menu choice 11: sys.exit(0) after a yes.
handle_exit(confirmed) ==
    /\ Running
    /\ IF confirmed THEN Propagate("SystemExit")
       ELSE Handled("exit", "none")

\* A choice that is not on the menu, or a sub-choice that is not 1, 2, 3.
invalid_choice == Running /\ Handled("menu", "none")

NextMenu ==
    \/ \E id \in ProductIds, name \in Names, price \in Prices,
          stock \in Stocks : handle_add_product(id, name, price, stock)
    \/ \E id \in ProductIds, name \in Optional(Names \cup {<<>>}),
          price \in Optional(Prices), stock \in Optional(Stocks),
          readable \in BOOLEAN :
            handle_update_product(id, name, price, stock, readable)
    \/ \E id \in ProductIds, confirmed \in BOOLEAN :
            handle_remove_product(id, confirmed)
    \/ list_products
    \/ \E id \in ProductIds, quantity \in Quantities :
            handle_record_sale(id, quantity)
    \/ list_sales
    \/ handle_inventory_report
    \/ handle_sales_report
    \/ \E term \in SearchTerms : handle_search(term)
    \/ \E min_price \in Optional(Prices), max_price \in Optional(Prices),
          readable \in BOOLEAN :
            handle_filter_by_price_range(min_price, max_price, readable)
    \/ \E threshold \in Thresholds, low_stock \in BOOLEAN,
          readable \in BOOLEAN :
            handle_filter_by_stock_level(threshold, low_stock, readable)
    \/ \E sale_id \in SaleIds, confirmed \in BOOLEAN :
            handle_cancel_sale(sale_id, confirmed)
    \/ \E confirmed \in BOOLEAN : handle_exit(confirmed)
    \/ invalid_choice

SpecMenu == Init /\ [][NextMenu]_vars

(* ------------------------------- claims -------------------------------- *)

\* The state both managers own (everything but the history variables).
state == <<products, heap, sales, next_sale_id>>

\* The products of the inventory, as objects.
Inventory == { heap[products[id]] : id \in DOMAIN products }

\* C1: in every reachable state every product of the inventory has
\* stock >= 0.
C1_StockNeverNegative == \A p \in Inventory : p.stock >= 0

\* C1: a product was sold out by a sale and another was restocked by a
\* cancellation or an update.
C1_Witness ==
    /\ last.op \in {"record_sale", "cancel_sale", "update_product"}
    /\ last.err = "none"
    /\ \E p \in Inventory : p.stock = 0
    /\ \E p \in Inventory : p.stock > 0

\* C2: for every product of the inventory and every quantity q > stock,
\* record_sale raises OutOfStockError, and a record_sale that raises it
\* leaves the stock, the ledger and next_sale_id as they were.
C2_OutOfStockNoMutation ==
    /\ [](\A id \in DOMAIN products, q \in AnyQuantity :
            (q > 0 /\ q > get_product(id).stock)
                => record_sale_error(id, q) = "OutOfStockError")
    /\ [][(last'.op = "record_sale" /\ last'.err = "OutOfStockError")
            => UNCHANGED state]_vars

\* C2: a sale was refused for lack of stock on a product that has stock
\* and sales exist.
C2_Witness ==
    /\ last.op = "record_sale"
    /\ last.err = "OutOfStockError"
    /\ \E p \in Inventory : p.stock > 0 /\ p.stock < MaxQuantity
    /\ sales # <<>>

\* C3: record_sale succeeds for every quantity 1 <= q <= stock, and a
\* successful call takes q from that product's stock, appends one sale with
\* the old next_sale_id, quantity q and total_value price * q, adds one to
\* next_sale_id, and leaves every other product and ledger entry alone.
C3_RecordSaleEffect ==
    /\ [](\A id \in DOMAIN products, q \in AnyQuantity :
            (1 <= q /\ q <= get_product(id).stock)
                => record_sale_error(id, q) = "none")
    /\ [][(last'.op = "record_sale" /\ last'.err = "none") =>
            LET id == last'.product_id
                q == last'.quantity
                ref == products[id]
            IN  /\ id \in DOMAIN products
                /\ 1 <= q /\ q <= heap[ref].stock
                /\ heap' = [heap EXCEPT ![ref].stock = heap[ref].stock - q]
                /\ products' = products
                /\ sales' = Append(sales,
                        [sale_id |-> next_sale_id, product |-> ref,
                         quantity |-> q,
                         total_value |-> FMul(heap[ref].price, q)])
                /\ next_sale_id' = next_sale_id + 1]_vars

\* C3: a sale of the whole stock of a repriced product, with another
\* product and an earlier sale present.
C3_Witness ==
    /\ last.op = "record_sale" /\ last.err = "none"
    /\ last.quantity = MaxQuantity
    /\ last.product_id \in DOMAIN products
    /\ get_product(last.product_id).stock = 0
    /\ get_product(last.product_id).price = 5
    /\ Cardinality(DOMAIN products) = 2
    /\ Len(sales) = 2

\* C4: while a sale's product is untouched since the sale, the sale can be
\* cancelled, and cancelling it gives the product the stock it had before
\* the sale and makes get_sale of that id raise SaleNotFoundError.
C4_RoundTrip ==
    /\ [](\A r \in DOMAIN round_trip : round_trip[r] # None =>
            cancel_sale_error(round_trip[r][1].sale_id) = "none")
    /\ [][\A r \in DOMAIN round_trip :
            ( /\ round_trip[r] # None
              /\ last'.op = "cancel_sale"
              /\ last'.err \in {"none", "ProductNotFoundError"}
              /\ last'.sale_id = round_trip[r][1].sale_id )
            => /\ last'.err = "none"
               /\ heap'[r].stock = round_trip[r][1].pre_stock
               /\ get_sale_error(sales', last'.sale_id)
                    = "SaleNotFoundError"]_vars

\* C4: a sale was cancelled whose product was untouched since the sale,
\* while another sale stays in the ledger.
C4_Witness ==
    /\ last.op = "cancel_sale" /\ last.err = "none"
    /\ last.untouched
    /\ sales # <<>>

\* C5: the ledger's ids are strictly increasing in ledger order and smaller
\* than next_sale_id; the n-th successful record_sale creates sale n; no
\* other call changes next_sale_id, which never decreases.
C5_SaleIdsNeverReused ==
    /\ [](/\ \A i \in DOMAIN sales :
                1 <= sales[i].sale_id /\ sales[i].sale_id < next_sale_id
          /\ \A i, j \in DOMAIN sales :
                i < j => sales[i].sale_id < sales[j].sale_id
          /\ next_sale_id = recorded + 1)
    /\ [][/\ next_sale_id' >= next_sale_id
          /\ (last'.op = "record_sale" /\ last'.err = "none")
                => /\ recorded' = recorded + 1
                   /\ sales' # <<>>
                   /\ sales'[Len(sales')].sale_id = recorded'
          /\ ~(last'.op = "record_sale" /\ last'.err = "none")
                => next_sale_id' = next_sale_id]_vars

\* C5: sale 2 was recorded after sale 1 had been cancelled.
C5_Witness ==
    /\ last.op = "record_sale" /\ last.err = "none"
    /\ Len(sales) = 1
    /\ sales[1].sale_id = 2
    /\ next_sale_id = 3

\* The sequence t is the sequence s without its i-th element.
IsWithout(t, s, i) ==
    /\ Len(t) = Len(s) - 1
    /\ \A j \in 1 .. (i - 1) : t[j] = s[j]
    /\ \A j \in i .. Len(t) : t[j] = s[j + 1]

\* C6: cancel_sale of a ledger sale whose product id is not a key of the
\* inventory raises ProductNotFoundError and removes that sale and no
\* other; no product of the inventory changes.
C6_CancelAfterRemoval ==
    /\ [](\A i \in DOMAIN sales :
            heap[sales[i].product].product_id \notin DOMAIN products
                => cancel_sale_error(sales[i].sale_id)
                        = "ProductNotFoundError")
    /\ [][(last'.op = "cancel_sale" /\ last'.err = "ProductNotFoundError")
            => LET i == get_sale_index(sales, last'.sale_id)
               IN  /\ i # 0
                   /\ heap[sales[i].product].product_id
                        \notin DOMAIN products
                   /\ IsWithout(sales', sales, i)
                   /\ products' = products
                   /\ next_sale_id' = next_sale_id
                   /\ \A id \in DOMAIN products :
                        heap'[products[id]] = heap[products[id]]]_vars

\* C6: the sale of a removed product was cancelled while another sale and a
\* product remain.
C6_Witness ==
    /\ last.op = "cancel_sale" /\ last.err = "ProductNotFoundError"
    /\ sales # <<>>
    /\ DOMAIN products # {}

\* The name has a character that is not whitespace.
ValidName(name) == \E k \in DOMAIN name : name[k] \notin Whitespace

\* t is s without its leading and trailing whitespace.
IsTrimOf(t, s) ==
    /\ t # <<>>
    /\ t[1] \notin Whitespace
    /\ t[Len(t)] \notin Whitespace
    /\ \E i \in 0 .. (Len(s) - Len(t)) :
        /\ SubSeq(s, i + 1, i + Len(t)) = t
        /\ \A k \in 1 .. i : s[k] \in Whitespace
        /\ \A k \in (i + Len(t) + 1) .. Len(s) : s[k] \in Whitespace

\* C7: add_product with an id that is a key of the inventory raises
\* ProductAlreadyExistsError whatever the other arguments are, and a call
\* that raises it changes nothing.
C7_DuplicateIdRejected ==
    /\ [](\A id \in DOMAIN products, name \in AnyName, price \in AnyPrice,
             stock \in AnyStock :
            add_product_error(id, name, price, stock)
                = "ProductAlreadyExistsError")
    /\ [][(last'.op = "add_product"
            /\ last'.err = "ProductAlreadyExistsError")
            => UNCHANGED state]_vars

\* C7: a duplicate add was refused while the inventory holds two products,
\* one of them renamed.
C7_Witness ==
    /\ last.op = "add_product" /\ last.err = "ProductAlreadyExistsError"
    /\ Cardinality(DOMAIN products) = 2
    /\ \E p \in Inventory : p.name = <<"b">>

\* C8: add_product succeeds for every valid (id, name, price, stock) with
\* a new id, and after a successful call get_product(id) is a product with
\* that id, price and stock and the trimmed name; the products that were
\* there are unchanged and stay under their ids.
C8_AddThenGet ==
    /\ [](\A id \in ProductIds, name \in AnyName, price \in AnyPrice,
             stock \in AnyStock :
            ( /\ id > 0 /\ id \notin DOMAIN products
              /\ ValidName(name) /\ price > 0 /\ stock >= 0 )
            => add_product_error(id, name, price, stock) = "none")
    /\ [][(last'.op = "add_product" /\ last'.err = "none") =>
            LET id == last'.product_id
                p == heap'[products'[id]]
            IN  /\ id \notin DOMAIN products
                /\ DOMAIN products' = DOMAIN products \cup {id}
                /\ p.product_id = id
                /\ p.price = last'.price
                /\ p.stock = last'.stock
                /\ IsTrimOf(p.name, last'.name)
                /\ \A x \in DOMAIN products :
                    /\ products'[x] = products[x]
                    /\ products'[x] # products'[id]
                    /\ heap'[products[x]] = heap[products[x]]]_vars

\* C8: a product was added under a name that had to be trimmed, beside
\* another product.
C8_Witness ==
    /\ last.op = "add_product" /\ last.err = "none"
    /\ get_product(last.product_id).name # last.name
    /\ Cardinality(DOMAIN products) = 2

\* C9: update_product of an existing product with some provided field
\* invalid raises the error of an invalid field, and raises none when every
\* provided field is valid; a call that raises changes nothing.
C9_UpdateValidatesFirst ==
    /\ [](\A id \in DOMAIN products, name \in Optional(AnyName),
             price \in Optional(AnyPrice), stock \in Optional(AnyStock) :
            LET bad_name == name # None /\ ~ValidName(name[1])
                bad_price == price # None /\ price[1] <= 0
                bad_stock == stock # None /\ stock[1] < 0
                err == update_product_error(id, name, price, stock)
            IN  /\ (bad_name \/ bad_price \/ bad_stock) <=> err # "none"
                /\ err = "InvalidProductDataError" => bad_name
                /\ err = "InvalidPriceError" => bad_price
                /\ err = "InvalidStockError" => bad_stock
                /\ err \in {"none", "InvalidProductDataError",
                            "InvalidPriceError", "InvalidStockError"})
    /\ [][(last'.op = "update_product" /\ last'.err # "none")
            => UNCHANGED state]_vars

\* C9: an update was refused at its last check, the stock, on a product
\* that an earlier update had renamed.
C9_Witness ==
    /\ last.op = "update_product" /\ last.err = "InvalidStockError"
    /\ \E p \in Inventory : p.name = <<"b">>
    /\ \E p \in Inventory : p.name = <<"a">>

RECURSIVE ExactTotal(_)
\* The exact sum of the total_value of the sales.
ExactTotal(sls) ==
    IF sls = <<>> THEN 0
    ELSE ExactTotal(SubSeq(sls, 1, Len(sls) - 1)) + sls[Len(sls)].total_value

\* Every partial sum of the ledger is a float: summing it rounds nowhere.
SumsExactly(sls) ==
    \A k \in 1 .. Len(sls) :
        Round(ExactTotal(SubSeq(sls, 1, k))) = ExactTotal(SubSeq(sls, 1, k))

\* C10 as stated: the revenue and the count are 0 for an empty ledger, the
\* count is the ledger's length, and a successful cancel_sale lowers the
\* revenue by exactly the total_value of the cancelled sale.
C10_CancelLowersRevenueExactly ==
    /\ [](/\ get_sales_count = Len(sales)
          /\ sales = <<>> => get_total_revenue = 0)
    /\ [][(last'.op = "cancel_sale" /\ last'.err = "none") =>
            SumFrom(0, sales') = SumFrom(0, sales)
                - sales[get_sale_index(sales, last'.sale_id)].total_value]_vars

\* C10 amended: the revenue is 0 for an empty ledger and is the exact sum
\* of the total_value of the ledger's sales whenever the float summation
\* rounds nowhere; a successful cancel_sale from and to such a ledger, and
\* so every cancellation of a ledger's only sale, lowers the revenue by
\* exactly the total_value of the cancelled sale.
C10_RevenueIsFloatSum ==
    /\ [](/\ get_sales_count = Cardinality({ sales[i].sale_id :
                                              i \in DOMAIN sales })
          /\ sales = <<>> => get_total_revenue = 0
          /\ SumsExactly(sales) => get_total_revenue = ExactTotal(sales))
    /\ [][(last'.op = "cancel_sale" /\ last'.err = "none") =>
            LET sale == sales[get_sale_index(sales, last'.sale_id)]
            IN  /\ (SumsExactly(sales) /\ SumsExactly(sales'))
                    => SumFrom(0, sales') = SumFrom(0, sales)
                                                - sale.total_value
                /\ Len(sales) = 1
                    => (sales' = <<>> /\ SumFrom(0, sales') = 0
                        /\ SumFrom(0, sales) = sale.total_value)]_vars

\* C10: a sale was cancelled and the sale left in the ledger is the
\* revenue.
C10_Witness ==
    /\ last.op = "cancel_sale" /\ last.err = "none"
    /\ Len(sales) = 1
    /\ get_total_revenue = sales[1].total_value
    /\ get_total_revenue > 0

\* The references of the inventory's products.
InventoryRefs == { products[id] : id \in DOMAIN products }

\* The elements of a sequence.
Range(seq) == { seq[k] : k \in DOMAIN seq }

\* C11: for every product id of the inventory, search_products of the
\* digits of that id (also with a leading zero) raises nothing and returns
\* the one-element list holding the product stored under that id, whatever
\* the names of the products are.
C11_SearchByIdShortCircuits ==
    \A id \in DOMAIN products :
        \A term \in { <<Decimal[id + 1]>>, <<"0", Decimal[id + 1]>> } :
            /\ search_products_error(term) = "none"
            /\ Len(search_products(term)) = 1
            /\ search_products(term)[1] = products[id]
            /\ heap[search_products(term)[1]].product_id = id

\* C11: "1" was searched while product 1 exists under a name without "1"
\* and another product has "1" in its name.
C11_Witness ==
    /\ last.op = "search_products" /\ last.err = "none"
    /\ last.term = <<"1">>
    /\ 1 \in DOMAIN products
    /\ ~Contains(<<"1">>, get_product(1).name)
    /\ \E id \in DOMAIN products \ {1} :
            Contains(<<"1">>, get_product(id).name)
    /\ Len(search_products(last.term)) = 1

\* C12: for every threshold, filter_by_stock_level(threshold, True) lists
\* once each exactly the products with stock <= threshold and
\* filter_by_stock_level(threshold, False) those with stock > threshold;
\* the two lists are disjoint and together are the whole inventory.
C12_FilterPartitions ==
    \A threshold \in Thresholds :
        LET low == filter_by_stock_level(threshold, TRUE)
            high == filter_by_stock_level(threshold, FALSE)
        IN  /\ Range(low) = { r \in InventoryRefs :
                                heap[r].stock <= threshold }
            /\ Range(high) = { r \in InventoryRefs :
                                heap[r].stock > threshold }
            /\ Len(low) = Cardinality(Range(low))
            /\ Len(high) = Cardinality(Range(high))
            /\ Range(low) \cap Range(high) = {}
            /\ Range(low) \cup Range(high) = InventoryRefs

\* C12: the low stock filter was called with threshold 10 on an inventory
\* with a product at stock 10 and a product at stock 11.
C12_Witness ==
    /\ last.op = "filter_by_stock_level"
    /\ last.threshold = 10 /\ last.low_stock
    /\ \E p \in Inventory : p.stock = 10
    /\ \E p \in Inventory : p.stock = 11
    /\ Len(filter_by_stock_level(last.threshold, last.low_stock)) = 1

RECURSIVE ExactValue(_)
\* The exact sum of price * stock over the products under these ids.
ExactValue(ids) ==
    IF ids = {} THEN 0
    ELSE LET id == CHOOSE x \in ids : TRUE
         IN  heap[products[id]].price * heap[products[id]].stock
                + ExactValue(ids \ {id})

RECURSIVE FloatValue(_)
\* The float sum of the float products price * stock of the first k
\* products, in the order the inventory holds them.
FloatValue(k) ==
    IF k = 0 THEN 0
    ELSE FAdd(FloatValue(k - 1),
              FMul(heap[values[k]].price, heap[values[k]].stock))

\* No product price * stock and no partial sum of them is rounded.
ValueSumsExactly ==
    \A k \in DOMAIN values :
        /\ FMul(heap[values[k]].price, heap[values[k]].stock)
                = heap[values[k]].price * heap[values[k]].stock
        /\ FloatValue(k) = ExactValue({ heap[values[j]].product_id :
                                            j \in 1 .. k })

\* C13: get_total_inventory_value() is 0 for an empty inventory and is the
\* float sum of price * stock over the products of the inventory (the exact
\* sum whenever nothing is rounded); it is the same sum taken over the
\* products with stock > 0 only, and only the inventory's products count.
C13_InventoryValue ==
    /\ DOMAIN products = {} => get_total_inventory_value = 0
    /\ get_total_inventory_value = FloatValue(Len(values))
    /\ Range(values) = InventoryRefs
    /\ Len(values) = Cardinality(DOMAIN products)
    /\ ValueSumsExactly
            => get_total_inventory_value = ExactValue(DOMAIN products)
    /\ get_total_inventory_value
            = ValueFrom(0, SelectSeq(values, LAMBDA r : heap[r].stock > 0))

\* C13: the value was asked of an inventory of a product without stock and
\* a product with stock, whose price * stock it is.
C13_Witness ==
    /\ last.op = "get_total_inventory_value"
    /\ \E id \in DOMAIN products : get_product(id).stock = 0
    /\ \E id \in DOMAIN products :
            /\ get_product(id).stock > 0
            /\ get_total_inventory_value
                    = get_product(id).price * get_product(id).stock
    /\ get_total_inventory_value > 0

\* C14: a call that raises one of these errors changes nothing: record_sale
\* raising InvalidQuantityError or ProductNotFoundError, cancel_sale and
\* get_sale raising SaleNotFoundError, update_product, remove_product and
\* get_product raising ProductNotFoundError, add_product raising any of its
\* validation errors.
C14_FailureLeavesState ==
    [][( \/ /\ last'.op = "record_sale"
            /\ last'.err \in {"InvalidQuantityError", "ProductNotFoundError"}
         \/ /\ last'.op \in {"cancel_sale", "get_sale"}
            /\ last'.err = "SaleNotFoundError"
         \/ /\ last'.op \in {"update_product", "remove_product",
                             "get_product"}
            /\ last'.err = "ProductNotFoundError"
         \/ /\ last'.op = "add_product"
            /\ last'.err \in {"InvalidProductIdError",
                              "ProductAlreadyExistsError",
                              "InvalidProductDataError",
                              "InvalidPriceError", "InvalidStockError"} )
        => UNCHANGED state]_vars

\* C14: a sale of a product that is not in the inventory was refused while
\* the inventory holds a product and the ledger a sale.
C14_Witness ==
    /\ last.op = "record_sale" /\ last.err = "ProductNotFoundError"
    /\ DOMAIN products # {}
    /\ sales # <<>>
    /\ next_sale_id = 2

\* C15: cancel_sale of a ledger sale raises ProductNotFoundError exactly
\* when the product_id of the sale's product is not a key of the inventory
\* and raises nothing otherwise; a cancel_sale that raises nothing adds the
\* sale's quantity to the stock of the object now stored under that id,
\* removes that sale and no other, and changes no other product: the
\* object the sale was recorded against, when it is another one, keeps its
\* stock.
C15_CancelResolvesById ==
    /\ [](\A i \in DOMAIN sales :
            LET pid == heap[sales[i].product].product_id
            IN  /\ pid \notin DOMAIN products
                    => cancel_sale_error(sales[i].sale_id)
                            = "ProductNotFoundError"
                /\ pid \in DOMAIN products
                    => cancel_sale_error(sales[i].sale_id) = "none")
    /\ [][(last'.op = "cancel_sale" /\ last'.err = "none") =>
            LET i == get_sale_index(sales, last'.sale_id)
                sale == sales[i]
                pid == heap[sale.product].product_id
            IN  /\ i # 0
                /\ pid \in DOMAIN products
                /\ heap'[products[pid]] =
                        [heap[products[pid]] EXCEPT
                            !.stock = @ + sale.quantity]
                /\ last'.replaced = (sale.product # products[pid])
                /\ last'.replaced =>
                        heap'[sale.product] \in {heap[sale.product], Freed}
                /\ IsWithout(sales', sales, i)
                /\ products' = products
                /\ \A id \in DOMAIN products \ {pid} :
                        heap'[products[id]] = heap[products[id]]]_vars

\* C15: a sale was cancelled after its product had been removed and
\* another product added under the same id, which now has the stock.
C15_Witness ==
    /\ last.op = "cancel_sale" /\ last.err = "none"
    /\ last.replaced
    /\ \E p \in Inventory : p.stock > MaxStock

\* The ids of the sales of a ledger.
SaleIdsOf(sls) == { sls[i].sale_id : i \in DOMAIN sls }

RECURSIVE RevenueOfFirst(_)
\* The float sum of the stored total_value of the first k sales.
RevenueOfFirst(k) ==
    IF k = 0 THEN 0
    ELSE FAdd(RevenueOfFirst(k - 1), sales[k].total_value)

\* C16: a new sale's total_value is the product's price at that moment
\* times the quantity; no step changes the total_value or the quantity of
\* a sale that stays in the ledger; a successful update_product or
\* remove_product leaves the ledger as it was; and get_total_revenue() is
\* in every state the sum of the stored total_value, so it does not change
\* with them.
C16_TotalValueFixed ==
    /\ [](get_total_revenue = RevenueOfFirst(Len(sales)))
    /\ [][(last'.op = "record_sale" /\ last'.err = "none") =>
            /\ sales' # <<>>
            /\ sales'[Len(sales')].total_value =
                    FMul(get_product(last'.product_id).price, last'.quantity)
            /\ sales'[Len(sales')].quantity = last'.quantity]_vars
    /\ [][\A i \in DOMAIN sales : \A j \in DOMAIN sales' :
            sales'[j].sale_id = sales[i].sale_id
                => /\ sales'[j].total_value = sales[i].total_value
                   /\ sales'[j].quantity = sales[i].quantity]_vars
    /\ [][( /\ last'.op \in {"update_product", "remove_product"}
            /\ last'.err = "none" )
            => sales' = sales]_vars

\* C16: a product was updated and a sale of it in the ledger has a
\* total_value that is not the product's price now times the quantity.
C16_Witness ==
    /\ last.op = "update_product" /\ last.err = "none"
    /\ \E i \in DOMAIN sales :
            /\ heap[sales[i].product].product_id = last.product_id
            /\ products[last.product_id] = sales[i].product
            /\ sales[i].total_value #
                    FMul(heap[sales[i].product].price, sales[i].quantity)
    /\ get_total_revenue > 0

\* C17: an id below next_sale_id that is not in the ledger (a cancelled
\* sale) is never in the ledger again, and get_sale and cancel_sale of it
\* raise SaleNotFoundError; an id enters the ledger only as next_sale_id by
\* a successful record_sale and leaves it only by a cancel_sale of that id;
\* no id is in the ledger twice; a cancel_sale that raises
\* SaleNotFoundError changes nothing.
C17_SaleLifecycle ==
    /\ [](/\ \A id \in 1 .. (next_sale_id - 1) :
                id \notin SaleIdsOf(sales)
                    => /\ get_sale_error(sales, id) = "SaleNotFoundError"
                       /\ cancel_sale_error(id) = "SaleNotFoundError"
          /\ Cardinality(SaleIdsOf(sales)) = Len(sales)
          /\ \A id \in SaleIdsOf(sales) : id < next_sale_id)
    /\ [][\A id \in 1 .. (next_sale_id - 1) :
            id \notin SaleIdsOf(sales) => id \notin SaleIdsOf(sales')]_vars
    /\ [][\A id \in SaleIdsOf(sales') \ SaleIdsOf(sales) :
            /\ last'.op = "record_sale" /\ last'.err = "none"
            /\ id = next_sale_id]_vars
    /\ [][\A id \in SaleIdsOf(sales) \ SaleIdsOf(sales') :
            /\ last'.op = "cancel_sale"
            /\ last'.err \in {"none", "ProductNotFoundError"}
            /\ last'.sale_id = id]_vars
    /\ [][(last'.op = "cancel_sale" /\ last'.err = "SaleNotFoundError")
            => UNCHANGED state]_vars

\* C17: cancel_sale raised SaleNotFoundError when every sale recorded had
\* been cancelled and a product has stock.
C17_Witness ==
    /\ last.op = "cancel_sale" /\ last.err = "SaleNotFoundError"
    /\ next_sale_id = MaxSaleId + 1
    /\ sales = <<>>
    /\ \E p \in Inventory : p.stock > 0

\* C18: in every state and for all arguments, add_product raises
\* InvalidProductIdError for an id <= 0; else ProductAlreadyExistsError for
\* an id of the inventory; else InvalidProductDataError for a blank name;
\* else InvalidPriceError for a price <= 0; else InvalidStockError for a
\* stock < 0, whatever the later arguments are; and record_sale raises
\* InvalidQuantityError for a quantity <= 0 whether or not the product
\* exists, and ProductNotFoundError for a positive quantity of a product
\* that does not.
C18_ErrorOrder ==
    /\ \A id \in ProductIds \cup {-1}, name \in AnyName, price \in AnyPrice,
          stock \in AnyStock :
        LET err == add_product_error(id, name, price, stock)
            fresh == id > 0 /\ id \notin DOMAIN products
        IN  /\ id <= 0 => err = "InvalidProductIdError"
            /\ (id > 0 /\ id \in DOMAIN products)
                    => err = "ProductAlreadyExistsError"
            /\ (fresh /\ ~ValidName(name))
                    => err = "InvalidProductDataError"
            /\ (fresh /\ ValidName(name) /\ price <= 0)
                    => err = "InvalidPriceError"
            /\ (fresh /\ ValidName(name) /\ price > 0 /\ stock < 0)
                    => err = "InvalidStockError"
    /\ \A id \in ProductIds \cup {-1}, q \in AnyQuantity :
        /\ q <= 0 => record_sale_error(id, q) = "InvalidQuantityError"
        /\ (q > 0 /\ id \notin DOMAIN products)
                => record_sale_error(id, q) = "ProductNotFoundError"

\* C18: record_sale raised InvalidQuantityError while one product id is in
\* the inventory and another is not.
C18_Witness ==
    /\ last.op = "record_sale" /\ last.err = "InvalidQuantityError"
    /\ Cardinality(DOMAIN products) = 1
    /\ \E id \in ProductIds : id > 0 /\ id \notin DOMAIN products

\* C19: every key of the inventory is the product_id of the product under
\* it, and that product has a non-empty name without leading or trailing
\* whitespace, a price > 0 and a stock >= 0; no step changes the
\* product_id of an object.
C19_CatalogueInvariants ==
    /\ [](\A id \in DOMAIN products :
            LET p == heap[products[id]]
            IN  /\ p.product_id = id
                /\ IsTrimOf(p.name, p.name)
                /\ p.price > 0
                /\ p.stock \in Nat)
    /\ [][\A r \in DOMAIN heap :
            heap[r] # Freed =>
                \/ heap'[r] = Freed
                \/ heap'[r].product_id = heap[r].product_id]_vars

\* C19: a product was updated in an inventory of a renamed product and a
\* product that is sold out.
C19_Witness ==
    /\ last.op = "update_product" /\ last.err = "none"
    /\ \E p \in Inventory : p.name = <<"b">> /\ p.stock > 0
    /\ \E p \in Inventory : p.stock = 0

\* C20 as stated: the report's out-of-stock count is the number of products
\* with stock = 0 and its low-stock count the number of products with
\* stock <= 10.
C20_ReportCounts ==
    inventory_report # None =>
        /\ inventory_report[1].out_of_stock =
                Cardinality({ r \in InventoryRefs : heap[r].stock = 0 })
        /\ inventory_report[1].low_stock =
                Cardinality({ r \in InventoryRefs :
                                heap[r].stock <= LOW_STOCK_THRESHOLD })

\* C20 amended: the report of a non-empty inventory (an empty one gets no
\* summary) counts as out of stock the products with stock = 0 and as low
\* stock the products with 0 < stock <= 10; no product is counted twice.
C20_ReportCountsExclusive ==
    /\ inventory_report = None <=> DOMAIN products = {}
    /\ inventory_report # None =>
        /\ inventory_report[1].out_of_stock =
                Cardinality({ r \in InventoryRefs : heap[r].stock = 0 })
        /\ inventory_report[1].low_stock =
                Cardinality({ r \in InventoryRefs :
                                /\ heap[r].stock > 0
                                /\ heap[r].stock <= LOW_STOCK_THRESHOLD })
        /\ inventory_report[1].out_of_stock + inventory_report[1].low_stock
                <= inventory_report[1].total_products
        /\ inventory_report[1].total_products = Cardinality(DOMAIN products)

\* C20: the report was made of an inventory with a product at stock 0 and
\* a product at stock 10.
C20_Witness ==
    /\ last.op = "inventory_report"
    /\ \E p \in Inventory : p.stock = 0
    /\ \E p \in Inventory : p.stock = LOW_STOCK_THRESHOLD
    /\ inventory_report[1].low_stock = 1
    /\ inventory_report[1].out_of_stock = 1

\* C23 as stated: search_products raises nothing for any term; for a term
\* that is not all digits, or is all digits but not the id of a product of
\* the inventory, it returns once each exactly the products whose
\* lower-cased name contains the trimmed, lower-cased term; and it changes
\* nothing.
C23_SearchNeverFails ==
    /\ [](last.op = "search_products" => last.err = "none")
    /\ [](\A term \in SearchTerms :
            search_products_error(term) = "none" =>
                LET t == search_term_of(term)
                    by_id == /\ t # <<>>
                             /\ \A k \in DOMAIN t : t[k] \in DecimalDigits
                             /\ int(t) \in DOMAIN products
                IN  ~by_id =>
                        /\ Range(search_products(term)) =
                                { r \in InventoryRefs :
                                    Contains(t, lower(heap[r].name)) }
                        /\ Len(search_products(term)) =
                                Cardinality(Range(search_products(term))))
    /\ [][last'.op = "search_products" => UNCHANGED state]_vars

RECURSIVE QuantityOfId(_, _)
\* The sum of the quantities of the sales recorded against the product
\* with this id.
QuantityOfId(id, sls) ==
    IF sls = <<>> THEN 0
    ELSE (IF heap[Head(sls).product].product_id = id
          THEN Head(sls).quantity ELSE 0) + QuantityOfId(id, Tail(sls))

\* The float sum of the total_value of the first k sales that were recorded
\* against the product with this id.
RECURSIVE RevenueOfId(_, _)
RevenueOfId(id, k) ==
    IF k = 0 THEN 0
    ELSE IF heap[sales[k].product].product_id = id
    THEN FAdd(RevenueOfId(id, k - 1), sales[k].total_value)
    ELSE RevenueOfId(id, k - 1)

\* The position of a name among the keys of the report.
KeyOf(keys, name) == CHOOSE k \in DOMAIN keys : keys[k] = name

\* C21 as stated: in a sales report, for every product that has sales in
\* the ledger the entry shown for it carries the sum of the quantities and
\* the sum of the total_value of exactly the sales recorded against that
\* product id, and the most-sold and highest-revenue figures are maxima of
\* these per-product sums.
C21_ReportPerProduct ==
    (last.op = "sales_report" /\ sales_report # None) =>
        LET rep == sales_report[1]
            entry(r) == KeyOf(rep.keys, heap[r].name)
        IN  \A r \in Refs(sales) :
                /\ rep.product_sales[entry(r)]
                        = QuantityOfId(heap[r].product_id, sales)
                /\ rep.product_revenue[entry(r)]
                        = RevenueOfId(heap[r].product_id, Len(sales))
                /\ rep.product_sales[KeyOf(rep.keys, rep.most_sold)]
                        >= QuantityOfId(heap[r].product_id, sales)
                /\ rep.product_revenue[KeyOf(rep.keys, rep.highest_revenue)]
                        >= RevenueOfId(heap[r].product_id, Len(sales))

\* C24 as stated: no exception leaves the menu loop but the SystemExit of
\* choice 11 confirmed with yes.
C24_LoopEndsOnlyByExit == last.op = "main" => last.err = "SystemExit"

\* C22: a sale holds the inventory's own Product object and never another
\* one: a successful record_sale stores the object found under the id, and
\* no step changes the object a ledger sale refers to. A successful
\* update_product changes that object in place and keeps it under its id,
\* so every ledger sale recorded against it shows the new name and price
\* through sale.product, with its total_value as before. An object that a
\* ledger sale refers to and that is not in the inventory after a step
\* (its product was removed, whether or not another product was added under
\* the id) has the fields it had before the step.
C22_LiveReference ==
    /\ [][\A i \in DOMAIN sales : \A j \in DOMAIN sales' :
            sales'[j].sale_id = sales[i].sale_id
                => sales'[j].product = sales[i].product]_vars
    /\ [][(last'.op = "record_sale" /\ last'.err = "none") =>
            /\ sales' # <<>>
            /\ sales'[Len(sales')].product = products[last'.product_id]]_vars
    /\ [][(last'.op = "update_product" /\ last'.err = "none") =>
            /\ products' = products
            /\ sales' = sales
            /\ \E name \in Optional(PricingNames),
                  price \in Optional(PricingPrices),
                  stock \in Optional(PricingStocks) :
                    \A i \in DOMAIN sales :
                        sales[i].product = products[last'.product_id] =>
                            /\ heap'[sales'[i].product] =
                                    update_product_apply(
                                        heap[sales[i].product],
                                        name, price, stock)
                            /\ heap'[sales'[i].product] =
                                    heap'[products'[last'.product_id]]
                            /\ sales'[i].total_value
                                    = sales[i].total_value]_vars
    /\ [][\A r \in Refs(sales') :
            r \notin { products'[id] : id \in DOMAIN products' }
                => /\ r \in DOMAIN heap
                   /\ heap'[r] = heap[r]
                   /\ heap'[r] # Freed]_vars

\* C22: a product with a sale in the ledger was repriced, so that the sale
\* shows a price that its total_value was not computed from, while the
\* other sale of the ledger refers to a removed product whose id is now the
\* id of another object of the inventory.
C22_Witness ==
    /\ last.op = "update_product" /\ last.err = "none"
    /\ \E i \in DOMAIN sales :
            /\ sales[i].product = products[last.product_id]
            /\ sales[i].total_value #
                    FMul(heap[sales[i].product].price, sales[i].quantity)
    /\ \E j \in DOMAIN sales :
            LET p == heap[sales[j].product]
            IN  /\ p.product_id \in DOMAIN products
                /\ products[p.product_id] # sales[j].product
                /\ p.name # <<>>

RECURSIVE SoldOf(_, _)
\* The sum of the quantities of the sales of a ledger that were recorded
\* against this object.
SoldOf(r, sls) ==
    IF sls = <<>> THEN 0
    ELSE (IF Head(sls).product = r THEN Head(sls).quantity ELSE 0)
            + SoldOf(r, Tail(sls))

\* The stock of an object plus the quantities sold of it in a ledger.
StockAndSold(h, sls, r) == h[r].stock + SoldOf(r, sls)

\* The ids whose product is the same object before and after the step.
Stayed == { id \in DOMAIN products \cap DOMAIN products' :
                products'[id] = products[id] }

\* The step is a successful update_product of this id.
UpdatedBy(id) ==
    /\ last'.op = "update_product" /\ last'.err = "none"
    /\ last'.product_id = id

\* The step is a successful cancel_sale of a sale that was recorded against
\* another object with this id than the one the inventory holds.
RestockedFromOther(id) ==
    /\ last'.op = "cancel_sale" /\ last'.err = "none"
    /\ last'.replaced
    /\ LET i == get_sale_index(sales, last'.sale_id)
       IN  i # 0 /\ heap[sales[i].product].product_id = id

\* A successful add_product starts the product with the stock given and
\* with no sale recorded against it.
AddedWithStock ==
    (last'.op = "add_product" /\ last'.err = "none") =>
        LET r == products'[last'.product_id]
        IN  /\ heap'[r].stock = last'.stock
            /\ SoldOf(r, sales') = 0

\* C25 as stated, step by step: a product starts with the stock it was
\* added with and no sale, and every step that keeps it in the inventory
\* and is not a successful update_product of it leaves its stock plus the
\* quantities of the ledger sales recorded against it as it was.
C25_StockConserved ==
    /\ [][AddedWithStock]_vars
    /\ [][\A id \in Stayed :
            ~UpdatedBy(id) =>
                StockAndSold(heap', sales', products[id])
                    = StockAndSold(heap, sales, products[id])]_vars

\* C25: a product starts with the stock it was added with and no sale, and
\* every step that keeps it in the inventory and is not a successful
\* update_product of it leaves its stock plus the quantities of the ledger
\* sales recorded against it as it was, but for one kind of step: a
\* successful cancel_sale of a sale recorded against an earlier product of
\* the same id, which adds that sale's quantity to the sum.
C25_StockConservedButForOtherSales ==
    /\ [][AddedWithStock]_vars
    /\ [][\A id \in Stayed :
            ~UpdatedBy(id) =>
                StockAndSold(heap', sales', products[id])
                    = StockAndSold(heap, sales, products[id])
                        + (IF RestockedFromOther(id)
                           THEN sales[get_sale_index(sales,
                                        last'.sale_id)].quantity
                           ELSE 0)]_vars

\* C25: a sale of a removed product was cancelled while the product now
\* under the id had a sale of its own in the ledger; its stock and the
\* quantity sold of it come to more than any stock a product is added
\* with.
C25_Witness ==
    /\ last.op = "cancel_sale" /\ last.err = "none"
    /\ last.replaced
    /\ \E id \in DOMAIN products :
            /\ SoldOf(products[id], sales) > 0
            /\ StockAndSold(heap, sales, products[id]) > MaxStock

\* C26: a call of add_product, update_product or remove_product, whether
\* it succeeds or raises, leaves the ledger (the sequence of sales, each
\* with its sale_id, quantity and total_value) and next_sale_id as they
\* were; get_sales_count() and get_total_revenue() are in every state the
\* length of the ledger and the sum of its stored total_value, whether or
\* not the products of the sales are in the inventory, so the sales of a
\* removed product keep counting.
C26_InventoryLeavesLedger ==
    /\ [](/\ get_sales_count = Len(sales)
          /\ get_total_revenue = RevenueOfFirst(Len(sales)))
    /\ [][last'.op \in {"add_product", "update_product", "remove_product"}
            => /\ sales' = sales
               /\ next_sale_id' = next_sale_id
               /\ \A i \in DOMAIN sales :
                    /\ sales'[i].sale_id = sales[i].sale_id
                    /\ sales'[i].quantity = sales[i].quantity
                    /\ sales'[i].total_value = sales[i].total_value]_vars

\* C26: a product with a sale in the ledger was removed; the sale is still
\* in the ledger, its product is under no id of the inventory, and it
\* counts in the sales count and in the revenue.
C26_Witness ==
    /\ last.op = "remove_product" /\ last.err = "none"
    /\ \E i \in DOMAIN sales :
            /\ heap[sales[i].product].product_id = last.product_id
            /\ last.product_id \notin DOMAIN products
    /\ get_sales_count > 0
    /\ get_total_revenue > 0

====
